---- MODULE Spec2Model ----
(***************************************************************************)
(* A model of agentic-fx-ai-mtf:                                           *)
(*   - data_ingestion/histdata_ingestor.py: the download                   *)
(*     (fetch_and_extract_histdata_csv), the row parser                    *)
(*     (parse_datetime_from_row, the OHLC offset heuristic, the numeric    *)
(*     conversions) and the batch publisher (parse_histdata_csv_and_push,  *)
(*     _push_metrics_sub_batch);                                           *)
(*   - clear_pushgateway.py: attempt_admin_wipe, discover_and_delete_groups*)
(*     and the __main__ cleanup run.                                       *)
(* The Pushgateway is the environment: a map from group key to the series  *)
(* of the last accepted push (PUT replaces the group).                     *)
(*                                                                         *)
(* Seven specifications share the module:                                    *)
(*   SpecRow      one CSV row, drawn from a bounded matrix of cells;       *)
(*   Spec         the publisher over a CSV of at most MaxRows rows, twice; *)
(*   SpecClean    the cleanup run, from the wipe attempt on, over an       *)
(*                exposition of at most MaxCleanLines lines                *)
(*                (SpecCleanFair: the same, run to completion);            *)
(*   SpecDiscover discover_and_delete_groups over an exposition of at most *)
(*                MaxLines lines;                                          *)
(*   SpecFetch    one call of fetch_and_extract_histdata_csv;              *)
(*   SpecMain     the ingestion script: the download, then the publisher.  *)
(***************************************************************************)
EXTENDS Naturals, Integers, Sequences, FiniteSets, TLC

VARIABLES
    \* ---- row parser (SpecRow) ----
    row,                            \* the row under test: a sequence of cells
    row_pc,                         \* "start" | "done"
    row_result,                     \* RowOutcome of the row once parsed
    \* ---- publisher (Spec) ----
    all_rows,                       \* list(csv.reader(...)): the rows of the file
    PUSH_SUB_BATCH_SIZE,            \* the chunk size C
    pc,                             \* "start" | "loop" | "done"
    run,                            \* 1 | 2: which run of the ingestion
    i,                              \* rows consumed so far by the for loop
    candles_processed_total,
    candles_in_current_sub_batch,
    registry,                       \* identity of the current CollectorRegistry
    gauges,                         \* series held by the current registry
    chunk_rows,                     \* row numbers whose bar the current registry received
    pushes,                         \* this run's push_to_gateway calls, in order
    pushed_registries,              \* registries already handed to a push call
    gateway,                        \* Pushgateway: group key -> series
    \* ---- cleanup (SpecClean) ----
    exposition,                     \* the lines GET /metrics returns
    groups,                         \* Pushgateway groups present: set of <<job, instance>>
    cpc,                            \* "wipe" | "fetch" | "instances" | "jobs" | "finished"
    wipe_status,                    \* outcome of PUT /api/v1/admin/wipe
    admin_wipe_successful,
    discover_calls,                 \* invocations of discover_and_delete_groups
    fetched,                        \* GET /metrics: "no" | "ok" | "error"
    job_instances,                  \* dict job -> set of instances, in insertion order
    all_jobs,                       \* jobs seen
    todo_instances,                 \* what the first loop has yet to visit
    todo_jobs,                      \* what the second loop has yet to visit
    del_count,                      \* DELETE requests issued, per target
    del_log,                        \* what was logged for each target's DELETE
    wipe_requests,                  \* PUT /api/v1/admin/wipe requests issued
    fetch_requests,                 \* GET /metrics requests issued
    \* ---- download (SpecFetch) ----
    fpc,                            \* "start" | "form" | "returned"
    gets,                           \* session.get calls made
    posts,                          \* session.post calls made
    get_outcome,                    \* how the GET ended
    page,                           \* the form of the page the GET returned
    payload,                        \* the body of the POST, None before it
    post_outcome,                   \* how the POST ended
    download,                       \* the response of the POST
    extracted,                      \* archive entries read, in order
    fetch_result                    \* the function's return value

rowVars == <<row, row_pc, row_result>>
ingestVars == <<all_rows, PUSH_SUB_BATCH_SIZE, pc, run, i, candles_processed_total,
                candles_in_current_sub_batch, registry, gauges, chunk_rows, pushes,
                pushed_registries, gateway>>
cleanVars == <<exposition, groups, cpc, wipe_status, admin_wipe_successful,
               discover_calls, fetched, job_instances, all_jobs, todo_instances,
               todo_jobs, del_count, del_log, wipe_requests, fetch_requests>>
fetchVars == <<fpc, gets, posts, get_outcome, page, payload, post_outcome, download,
               extracted, fetch_result>>
vars == <<rowVars, ingestVars, cleanVars, fetchVars>>

(***************************************************************************)
(* Bounds of the model.                                                    *)
(***************************************************************************)
MaxRows == 3
MaxChunk == 2
MaxTail == 5
MaxLines == 3
MaxCleanLines == 2

None == "None"

(***************************************************************************)
(* Cells: the concrete CSV fields the model draws from, and what Python    *)
(* computes on each of them.                                               *)
(***************************************************************************)
HISTDATA_DATETIME_FORMATS == <<"%Y%m%d %H%M%S", "%Y.%m.%d %H:%M", "%Y%m%d%H%M%S">>

\* datetime.strptime(s, fmt).strftime('%Y%m%d%H%M%S'), or None on ValueError.
Strptime(s, fmt) ==
    CASE fmt = "%Y%m%d %H%M%S" /\ s = "20230103 220000" -> "20230103220000"
      [] fmt = "%Y%m%d %H%M%S" /\ s = "20230103 220100" -> "20230103220100"
      [] fmt = "%Y.%m.%d %H:%M" /\ s = "2023.01.03 22:00" -> "20230103220000"
      [] fmt = "%Y%m%d%H%M%S" /\ s = "20230103220000" -> "20230103220000"
      [] fmt = "%Y%m%d %H%M%S" /\ s = "202311 51234" -> "20230101051234"
      [] fmt = "%Y%m%d%H%M%S" /\ s = "202311 51234" -> "20231105120304"
      [] OTHER -> None

\* str.strip(): the one padded cell of the model loses its blanks.
Strip(s) == IF s = " 220000 " THEN "220000" ELSE s

\* len(s.split())
WordCount(s) ==
    IF s = "" THEN 0
    ELSE IF s \in {"20230103 220000", "20230103 220100", "2023.01.03 22:00",
                    "202311 51234"} THEN 2
    ELSE 1

\* '.' in s
HasDot(s) == s \in {"2023.01.03 22:00", "2023.01.03", "1.0531", "1.0534", "1.0530", "1.0533"}

\* ':' in s
HasColon(s) == s \in {"2023.01.03 22:00", "22:00"}

\* float(s) does not raise ValueError
IsFloat(s) ==
    s \in {"1.0531", "1.0534", "1.0530", "1.0533", "0", "20230103", "220000", "220100",
           " 220000 ", "20230103220000"}

\* row[k] with Python's 0-based index
Col(r, k) == r[k + 1]

(***************************************************************************)
(* parse_datetime_from_row: column 0 alone against each format in order,   *)
(* then columns 0 and 1 joined by a space. The result names where the      *)
(* timestamp came from; an empty row raises IndexError at row_data[0].     *)
(***************************************************************************)
\* A mutant: the last format that matches is taken.
FirstFormat_Last(s) ==
    LET hits == {k \in 1..Len(HISTDATA_DATETIME_FORMATS) :
                    Strptime(s, HISTDATA_DATETIME_FORMATS[k]) # None}
    IN  IF hits = {} THEN 0 ELSE CHOOSE k \in hits : \A h \in hits : k >= h

FirstFormat(s) ==
    LET hits == {k \in 1..Len(HISTDATA_DATETIME_FORMATS) :
                    Strptime(s, HISTDATA_DATETIME_FORMATS[k]) # None}
    IN  IF hits = {} THEN 0 ELSE CHOOSE k \in hits : \A h \in hits : k <= h

parse_datetime_from_row(row_data) ==
    LET alone == FirstFormat(Strip(Col(row_data, 0)))
    IN  IF alone # 0
        THEN [dt |-> Strptime(Strip(Col(row_data, 0)), HISTDATA_DATETIME_FORMATS[alone]),
              from |-> "col0", fmt |-> alone]
        ELSE IF Len(row_data) > 1
        THEN LET combined == Strip(Col(row_data, 0)) \o " " \o Strip(Col(row_data, 1))
                 joined == FirstFormat(combined)
             IN  IF joined # 0
                 THEN [dt |-> Strptime(combined, HISTDATA_DATETIME_FORMATS[joined]),
                       from |-> "joined", fmt |-> joined]
                 ELSE [dt |-> None, from |-> "none", fmt |-> 0]
        ELSE [dt |-> None, from |-> "none", fmt |-> 0]

(***************************************************************************)
(* The OHLC start column chosen at lines 185-192.                          *)
(***************************************************************************)
ohlcv_start_index(r) ==
    IF WordCount(Col(r, 0)) = 1 /\ ~HasDot(Col(r, 0)) /\ Len(r) > 1 /\ HasColon(Col(r, 1))
    THEN 2
    ELSE IF ~(WordCount(Col(r, 0)) > 1 \/ HasDot(Col(r, 0)))
    THEN IF WordCount(Col(r, 0)) = 1 /\ ~(HasDot(Col(r, 0)) \/ HasColon(Col(r, 0)))
         THEN 2
         ELSE 1
    ELSE 1

\* The four float() conversions of lines 201-204, in order: 0 when all succeed,
\* else the position (1..4) of the first that raises ValueError.
FirstBadPrice(r, idx) ==
    LET bad == {k \in 1..4 : ~IsFloat(Col(r, idx + k - 1))}
    IN  IF bad = {} THEN 0 ELSE CHOOSE k \in bad : \A b \in bad : k <= b

NoBar == [open |-> None, high |-> None, low |-> None, close |-> None]

(***************************************************************************)
(* One iteration of the for loop up to the conversions (lines 179-207):    *)
(* kind is "bar", or the reason the row is skipped.                        *)
(***************************************************************************)
RowOutcome(r) ==
    IF Len(r) = 0
    THEN [kind |-> "IndexError", dt |-> None, from |-> "none", fmt |-> 0, idx |-> 0,
          bad |-> 0, bar |-> NoBar]
    ELSE LET p == parse_datetime_from_row(r)
             idx == ohlcv_start_index(r)
         IN  IF p.dt = None
             THEN [kind |-> "unparsed_datetime", dt |-> None, from |-> "none",
                   fmt |-> 0, idx |-> 0, bad |-> 0, bar |-> NoBar]
             ELSE IF Len(r) < idx + 5
             THEN [kind |-> "malformed", dt |-> p.dt, from |-> p.from, fmt |-> p.fmt,
                   idx |-> idx, bad |-> 0, bar |-> NoBar]
             ELSE IF FirstBadPrice(r, idx) # 0
             THEN [kind |-> "ValueError", dt |-> p.dt, from |-> p.from, fmt |-> p.fmt,
                   idx |-> idx, bad |-> FirstBadPrice(r, idx), bar |-> NoBar]
             ELSE [kind |-> "bar", dt |-> p.dt, from |-> p.from, fmt |-> p.fmt,
                   idx |-> idx, bad |-> 0,
                   bar |-> [open |-> Col(r, idx), high |-> Col(r, idx + 1),
                            low |-> Col(r, idx + 2), close |-> Col(r, idx + 3)]]

(***************************************************************************)
(* The row matrix of SpecRow: an empty row (a blank line), or column 0,    *)
(* optionally column 1, and up to MaxTail further cells.                   *)
(***************************************************************************)
Col0Cells == {"20230103 220000", "2023.01.03 22:00", "20230103220000", "20230103",
              "2023.01.03", "202311 51234", "abc", ""}
Col1Cells == {"220000", " 220000 ", "22:00", "1.0531", "abc"}
TailCells == {"1.0531", "abc"}

Tails == UNION {[1..n -> TailCells] : n \in 0..MaxTail}
RowSpace ==
    {<<>>} \cup {<<c0>> : c0 \in Col0Cells}
           \cup {<<c0, c1>> \o t : c0 \in Col0Cells, c1 \in Col1Cells, t \in Tails}

RowIdle == row = <<>> /\ row_pc = "idle" /\ row_result = RowOutcome(<<>>)

ParseRow ==
    /\ row_pc = "start"
    /\ row_result' = RowOutcome(row)
    /\ row_pc' = "done"
    /\ UNCHANGED <<row, ingestVars, cleanVars, fetchVars>>

(***************************************************************************)
(* The publisher: parse_histdata_csv_and_push and _push_metrics_sub_batch. *)
(***************************************************************************)
JOB_NAME == "histdata_fx_ingestor"
target_currency_pair == "EURUSD"
target_year == 2023
target_month == 1
timeframe_label == "1m"

Metrics == {"fx_ohlc_open", "fx_ohlc_high", "fx_ohlc_low", "fx_ohlc_close"}

\* f"{year}" and f"{month:02d}" on the values the model uses.
YearStr(y) == IF y = 2023 THEN "2023" ELSE "2024"
Month02d(m) ==
    <<"01", "02", "03", "04", "05", "06", "07", "08", "09", "10", "11", "12">>[m]

\* line 131: f"{currency_pair}_{year}_{month:02d}"
grouping_key_instance(currency_pair, year, month) ==
    currency_pair \o "_" \o YearStr(year) \o "_" \o Month02d(month)

GroupKey(currency_pair, year, month) ==
    <<JOB_NAME, grouping_key_instance(currency_pair, year, month)>>

\* A mutant: the timestamp is not among the labels.
Series_NoTimestamp(metric, ts, value) ==
    [metric |-> metric, currency_pair |-> target_currency_pair,
     timeframe |-> timeframe_label, timestamp |-> "", value |-> value]

Series(metric, ts, value) ==
    [metric |-> metric, currency_pair |-> target_currency_pair,
     timeframe |-> timeframe_label, timestamp |-> ts, value |-> value]

SameLabels(s, t) ==
    /\ s.metric = t.metric
    /\ s.currency_pair = t.currency_pair
    /\ s.timeframe = t.timeframe
    /\ s.timestamp = t.timestamp

\* Gauge.labels(*labels).set(v): the child with these labels now holds v.
SetAll(g, new) == {s \in g : \A n \in new : ~SameLabels(s, n)} \cup new

\* A mutant: each price is converted and set in turn, so the gauges set before the
\* conversion that raises keep their sample.
GaugesAfterRow_Interleaved(g, r) ==
    LET out == RowOutcome(r)
        names == <<"fx_ohlc_open", "fx_ohlc_high", "fx_ohlc_low", "fx_ohlc_close">>
        upto == IF out.kind = "bar" THEN 4
                ELSE IF out.kind = "ValueError" THEN out.bad - 1 ELSE 0
    IN  SetAll(g, {Series(names[k], out.dt, Col(r, out.idx + k - 1)) : k \in 1..upto})

\* Lines 201-213: the four conversions come first, then the four sets; a row that
\* is skipped reaches none of the sets.
GaugesAfterRow(g, r) ==
    LET out == RowOutcome(r)
    IN  IF out.kind = "bar"
        THEN SetAll(g, {Series("fx_ohlc_open", out.dt, out.bar.open),
                        Series("fx_ohlc_high", out.dt, out.bar.high),
                        Series("fx_ohlc_low", out.dt, out.bar.low),
                        Series("fx_ohlc_close", out.dt, out.bar.close)})
        ELSE g

\* A mutant: the chunk is pushed once it exceeds the size.
PushDue_Late(in_batch, processed, total_rows_in_file) ==
    in_batch > PUSH_SUB_BATCH_SIZE \/ processed = total_rows_in_file

\* Line 219: when the chunk is pushed.
PushDue(in_batch, processed, total_rows_in_file) ==
    in_batch >= PUSH_SUB_BATCH_SIZE \/ processed = total_rows_in_file

\* A mutant: the containers are kept after a push.
RotateDue_Never(processed, total_rows_in_file) == FALSE

\* Line 223: when a fresh registry and fresh gauges replace the pushed ones.
RotateDue(processed, total_rows_in_file) == processed < total_rows_in_file

\* A mutant: a failed push ends the loop.
AfterPush_Abort(ok) == IF ok THEN "loop" ELSE "done"

\* Lines 137-147: push_to_gateway's exception is caught and logged; the caller's
\* loop goes on whatever the outcome.
AfterPush(ok) == "loop"

\* The Pushgateway's PUT (push_to_gateway): the group's content is replaced.
GatewayPut(gw, key, series) ==
    [k \in DOMAIN gw \cup {key} |-> IF k = key THEN series ELSE gw[k]]

\* A mutant: the instance changes with the registry pushed.
PushRecord_KeyPerChunk(reg, series, rows, count, processed, ok) ==
    [registry |-> reg, series |-> series, rows |-> rows, count |-> count,
     processed |-> processed, ok |-> ok, job |-> JOB_NAME,
     instance |-> grouping_key_instance(target_currency_pair, target_year, target_month)
                    \o (IF reg = 0 THEN "" ELSE "_next")]

\* _push_metrics_sub_batch: one push_to_gateway call under job JOB_NAME and the
\* instance of the request (Iterate sends nothing for an empty sub-batch, line 128).
PushRecord(reg, series, rows, count, processed, ok) ==
    [registry |-> reg, series |-> series, rows |-> rows, count |-> count,
     processed |-> processed, ok |-> ok, job |-> JOB_NAME,
     instance |-> grouping_key_instance(target_currency_pair, target_year, target_month)]

RowPool ==
    { <<"20230103 220000", "1.0531", "1.0534", "1.0530", "1.0533", "0">>,
      <<"20230103", "220100", "1.0531", "1.0534", "1.0530", "1.0533", "0">>,
      <<"abc", "1.0531", "1.0534", "1.0530", "1.0533", "0">>,
      <<"20230103 220100", "1.0531", "1.0534", "abc", "1.0533", "0">>,
      <<"20230103 220000", "1.0531", "1.0534", "1.0530", "1.0533">> }

CsvSpace == UNION {[1..n -> RowPool] : n \in 0..MaxRows}

NoGroups == [k \in {} |-> {}]

IngestIdle ==
    /\ all_rows = <<>> /\ PUSH_SUB_BATCH_SIZE = 1 /\ pc = "idle" /\ run = 1 /\ i = 0
    /\ candles_processed_total = 0 /\ candles_in_current_sub_batch = 0
    /\ registry = 0 /\ gauges = {} /\ chunk_rows = {} /\ pushes = <<>>
    /\ pushed_registries = {} /\ gateway = NoGroups

\* Lines 151-153: no content, nothing parsed and nothing pushed.
NoContent ==
    /\ pc = "start"
    /\ all_rows = <<>>
    /\ pc' = "done"
    /\ UNCHANGED <<all_rows, PUSH_SUB_BATCH_SIZE, run, i, candles_processed_total,
                   candles_in_current_sub_batch, registry, gauges, chunk_rows, pushes,
                   pushed_registries, gateway, rowVars, cleanVars,
                   fetchVars>>

\* Lines 155-175: the rows are read, the counters zeroed, the first registry made.
Begin ==
    /\ pc = "start"
    /\ all_rows # <<>>
    /\ pc' = "loop"
    /\ i' = 0
    /\ candles_processed_total' = 0
    /\ candles_in_current_sub_batch' = 0
    /\ registry' = registry + 1
    /\ gauges' = {}
    /\ chunk_rows' = {}
    /\ UNCHANGED <<all_rows, PUSH_SUB_BATCH_SIZE, run, pushes, pushed_registries,
                   gateway, rowVars, cleanVars,
                   fetchVars>>

\* Lines 178-240: one iteration of the for loop, the push it may make included.
Iterate ==
    /\ pc = "loop"
    /\ i < Len(all_rows)
    /\ LET r == all_rows[i + 1]
           out == RowOutcome(r)
           total_rows_in_file == Len(all_rows)
           in_batch == candles_in_current_sub_batch + 1
           processed == candles_processed_total + 1
           rows == chunk_rows \cup {i + 1}
           g == GaugesAfterRow(gauges, r)
       IN  /\ i' = i + 1
           /\ IF out.kind # "bar"
              THEN /\ gauges' = g
                   /\ UNCHANGED <<pc, candles_processed_total,
                                  candles_in_current_sub_batch, registry, chunk_rows,
                                  pushes, pushed_registries, gateway>>
              ELSE /\ candles_processed_total' = processed
                   /\ IF PushDue(in_batch, processed, total_rows_in_file)
                      THEN \E ok \in BOOLEAN :
                           LET sent == PushRecord(registry, g, rows, in_batch,
                                                  processed, ok)
                           IN
                             /\ pushes' = IF in_batch = 0 THEN pushes
                                          ELSE Append(pushes, sent)
                             /\ pushed_registries' =
                                  IF in_batch = 0 THEN pushed_registries
                                  ELSE pushed_registries \cup {registry}
                             /\ gateway' =
                                  IF ok /\ in_batch # 0
                                  THEN GatewayPut(gateway, <<sent.job, sent.instance>>,
                                                  sent.series)
                                  ELSE gateway
                             /\ pc' = AfterPush(ok)
                             /\ candles_in_current_sub_batch' = 0
                             /\ IF RotateDue(processed, total_rows_in_file)
                                THEN /\ registry' = registry + 1
                                     /\ gauges' = {}
                                     /\ chunk_rows' = {}
                                ELSE /\ registry' = registry
                                     /\ gauges' = g
                                     /\ chunk_rows' = rows
                      ELSE /\ candles_in_current_sub_batch' = in_batch
                           /\ gauges' = g
                           /\ chunk_rows' = rows
                           /\ UNCHANGED <<pc, registry, pushes, pushed_registries,
                                          gateway>>
    /\ UNCHANGED <<all_rows, PUSH_SUB_BATCH_SIZE, run, rowVars, cleanVars,
                   fetchVars>>

\* Line 242: the input is exhausted.
Finish ==
    /\ pc = "loop"
    /\ i = Len(all_rows)
    /\ pc' = "done"
    /\ UNCHANGED <<all_rows, PUSH_SUB_BATCH_SIZE, run, i, candles_processed_total,
                   candles_in_current_sub_batch, registry, gauges, chunk_rows, pushes,
                   pushed_registries, gateway, rowVars, cleanVars,
                   fetchVars>>

\* The ingestion is run again for the same instrument, year and month: a new
\* process, against the Pushgateway the first run left.
Rerun ==
    /\ pc = "done"
    /\ run = 1
    /\ run' = 2
    /\ pc' = "start"
    /\ i' = 0
    /\ candles_processed_total' = 0
    /\ candles_in_current_sub_batch' = 0
    /\ gauges' = {}
    /\ chunk_rows' = {}
    /\ pushes' = <<>>
    /\ pushed_registries' = {}
    /\ UNCHANGED <<all_rows, PUSH_SUB_BATCH_SIZE, registry, gateway, rowVars, cleanVars,
                   fetchVars>>

(***************************************************************************)
(* The cleanup run: clear_pushgateway.py.                                  *)
(***************************************************************************)
Absent == "<absent>"

\* The exposition lines the model draws from. kind is "comment" (a line starting
\* with #), "blank", or "data" (a line metric_line_pattern matches); labels is the
\* list label_pattern.findall returns for the text between the braces, empty when
\* the line has no braces.
LinePool ==
    { [kind |-> "comment", labels |-> <<>>],
      [kind |-> "blank", labels |-> <<>>],
      [kind |-> "data", labels |-> <<>>],
      [kind |-> "data", labels |-> << <<"instance", "i1">>, <<"job", "j1">> >>],
      [kind |-> "data", labels |-> << <<"instance", "i2">>, <<"job", "j1">> >>],
      [kind |-> "data", labels |-> << <<"instance", "">>, <<"job", "j1">> >>],
      [kind |-> "data", labels |-> << <<"job", "j2">> >>],
      [kind |-> "data", labels |-> << <<"instance", "i1">> >>] }

ExpositionsUpTo(m) == UNION {[1..n -> LinePool] : n \in 0..m}

\* dict(pairs).get(name): the last pair with this name wins.
LabelValue(labels, name) ==
    LET at == {k \in 1..Len(labels) : labels[k][1] = name}
    IN  IF at = {} THEN Absent
        ELSE labels[CHOOSE k \in at : \A h \in at : h <= k][2]

\* Python's truth value of a label looked up in the dict: None and "" are false.
Truthy(v) == v # Absent /\ v # ""

\* dict lookup in a list of <<key, value>> pairs kept in insertion order
DictHas(d, key) == \E k \in 1..Len(d) : d[k][1] = key
DictGet(d, key) ==
    IF DictHas(d, key) THEN d[CHOOSE k \in 1..Len(d) : d[k][1] = key][2] ELSE {}
DictAdd(d, key, v) ==
    IF DictHas(d, key)
    THEN [k \in 1..Len(d) |-> IF d[k][1] = key THEN <<key, d[k][2] \cup {v}>> ELSE d[k]]
    ELSE Append(d, <<key, {v}>>)

\* Lines 91-110: the loop over the lines, building job_instances and all_jobs.
RECURSIVE ParseLines(_, _)
ParseLines(lines, n) ==
    IF n = 0 THEN [job_instances |-> <<>>, all_jobs |-> {}]
    ELSE LET acc == ParseLines(lines, n - 1)
             line == lines[n]
             job_name == LabelValue(line.labels, "job")
             instance_name == LabelValue(line.labels, "instance")
         IN  IF line.kind # "data" \/ line.labels = <<>> \/ ~Truthy(job_name)
             THEN acc
             ELSE [job_instances |->
                      IF Truthy(instance_name)
                      THEN DictAdd(acc.job_instances, job_name, instance_name)
                      ELSE acc.job_instances,
                   all_jobs |-> acc.all_jobs \cup {job_name}]

\* The groups the Pushgateway holds when it renders `lines`: a series pushed under
\* a job alone is the group <<job, "">>.
GroupsOf(lines) ==
    {<<LabelValue(lines[k].labels, "job"),
       IF Truthy(LabelValue(lines[k].labels, "instance"))
       THEN LabelValue(lines[k].labels, "instance") ELSE "">> :
        k \in {h \in 1..Len(lines) : lines[h].kind = "data"
                                      /\ Truthy(LabelValue(lines[h].labels, "job"))}}

WipeOutcomes == {"200", "404", "405", "500", "ConnectionError", "Timeout", "Exception"}
DeleteOutcomes == {"202", "404", "500", "Exception"}

\* A mutant: a 404 from the admin API is taken for success.
attempt_admin_wipe_404ok(outcome) == outcome \in {"200", "404"}

\* attempt_admin_wipe, lines 21-45: True on status 200 only.
attempt_admin_wipe(outcome) ==
    CASE outcome = "200" -> TRUE
      [] outcome = "404" -> FALSE
      [] outcome = "405" -> FALSE
      [] outcome \in {"ConnectionError", "Timeout", "Exception"} -> FALSE
      [] OTHER -> FALSE

\* Lines 120-129 and 140-149: what is logged for a DELETE's outcome.
DeleteLog(outcome) ==
    CASE outcome = "202" -> "deleted"
      [] outcome = "404" -> "already absent"
      [] outcome = "Exception" -> "error: exception"
      [] OTHER -> "error: status"

\* A mutant: an exception from requests.delete leaves the function.
AfterDelete_Abort(outcome) == IF outcome = "Exception" THEN "finished" ELSE "continue"

\* Lines 128-129 and 148-149: the exception is caught inside the loop body.
AfterDelete(outcome) == "continue"

\* A mutant: a delete that failed is issued again.
InstancesLeft_RetryOnError(instances, instance_name, outcome) ==
    IF outcome \in {"500", "Exception"} THEN instances
    ELSE instances \ {instance_name}

\* Line 115: for instance_name in instances visits each instance once, whatever
\* the outcome of its DELETE.
InstancesLeft(instances, instance_name, outcome) == instances \ {instance_name}

\* A mutant: the job-level delete is issued for every job seen.
JobDeleteDue_Always(ji, job_name) == TRUE

\* Line 135: only a job with no recorded instance gets the job-level delete.
JobDeleteDue(ji, job_name) == DictGet(ji, job_name) = {}

NoCounts == [t \in {} |-> 0]

Count(f, t) == IF t \in DOMAIN f THEN f[t] ELSE 0
Bump(f, t) == [k \in DOMAIN f \cup {t} |-> IF k = t THEN Count(f, t) + 1 ELSE f[k]]
Put(f, t, v) == [k \in DOMAIN f \cup {t} |-> IF k = t THEN v ELSE f[k]]

\* The Pushgateway's answer to an accepted DELETE: exactly the addressed group goes
\* (a job-level DELETE addresses the group of the job alone).
GroupsAfterDelete(gs, target, outcome) ==
    IF outcome = "202" THEN gs \ {target} ELSE gs

CleanIdle ==
    /\ exposition = <<>> /\ groups = {} /\ cpc = "idle" /\ wipe_status = None
    /\ admin_wipe_successful = FALSE /\ discover_calls = 0 /\ fetched = "no"
    /\ job_instances = <<>> /\ all_jobs = {} /\ todo_instances = <<>>
    /\ todo_jobs = {} /\ del_count = NoCounts /\ del_log = NoCounts
    /\ wipe_requests = 0 /\ fetch_requests = 0

\* __main__, lines 160-164: the wipe attempt, and the fallback unless it succeeded.
AdminWipe ==
    /\ cpc = "wipe"
    /\ \E outcome \in WipeOutcomes :
         /\ wipe_status' = outcome
         /\ admin_wipe_successful' = attempt_admin_wipe(outcome)
         /\ groups' = IF outcome = "200" THEN {} ELSE groups
         /\ IF attempt_admin_wipe(outcome)
            THEN cpc' = "finished" /\ discover_calls' = discover_calls
            ELSE cpc' = "fetch" /\ discover_calls' = discover_calls + 1
    /\ wipe_requests' = wipe_requests + 1
    /\ UNCHANGED <<exposition, fetched, job_instances, all_jobs, todo_instances,
                   todo_jobs, del_count, del_log, fetch_requests, rowVars,
                   ingestVars, fetchVars>>

\* discover_and_delete_groups, lines 55-110: the fetch, and the parse of its text.
Fetch ==
    /\ cpc = "fetch"
    /\ \E outcome \in {"ok", "error"} :
         /\ fetched' = outcome
         /\ IF outcome = "error"
            THEN /\ cpc' = "finished"
                 /\ UNCHANGED <<job_instances, all_jobs, todo_instances, todo_jobs>>
            ELSE LET parsed == ParseLines(exposition, Len(exposition))
                 IN  /\ job_instances' = parsed.job_instances
                     /\ all_jobs' = parsed.all_jobs
                     /\ todo_instances' = parsed.job_instances
                     /\ todo_jobs' = parsed.all_jobs
                     /\ cpc' = "instances"
    /\ fetch_requests' = fetch_requests + 1
    /\ UNCHANGED <<exposition, groups, wipe_status, admin_wipe_successful,
                   discover_calls, del_count, del_log, wipe_requests, rowVars,
                   ingestVars, fetchVars>>

\* Lines 114-129: one DELETE of the first loop. The jobs come in the dict's
\* insertion order, a job's instances in the set's (arbitrary) order.
DeleteInstance ==
    /\ cpc = "instances"
    /\ todo_instances # <<>>
    /\ LET job_name == Head(todo_instances)[1]
       IN  \E instance_name \in Head(todo_instances)[2] :
             \E outcome \in DeleteOutcomes :
               LET target == <<job_name, instance_name>>
                   left == InstancesLeft(Head(todo_instances)[2], instance_name,
                                         outcome)
               IN  /\ del_count' = Bump(del_count, target)
                   /\ del_log' = Put(del_log, target,
                                      [status |-> outcome, log |-> DeleteLog(outcome)])
                   /\ groups' = GroupsAfterDelete(groups, target, outcome)
                   /\ IF AfterDelete(outcome) = "continue"
                      THEN /\ cpc' = cpc
                           /\ todo_instances' =
                                IF left = {} THEN Tail(todo_instances)
                                ELSE <<<<job_name, left>>>> \o Tail(todo_instances)
                      ELSE /\ cpc' = "finished"
                           /\ todo_instances' = todo_instances
    /\ UNCHANGED <<exposition, wipe_status, admin_wipe_successful, discover_calls,
                   fetched, job_instances, all_jobs, todo_jobs, wipe_requests,
                   fetch_requests, rowVars, ingestVars, fetchVars>>

\* Line 132: the first loop is over, the second begins.
InstancesDone ==
    /\ cpc = "instances"
    /\ todo_instances = <<>>
    /\ cpc' = "jobs"
    /\ UNCHANGED <<exposition, groups, wipe_status, admin_wipe_successful,
                   discover_calls, fetched, job_instances, all_jobs, todo_instances,
                   todo_jobs, del_count, del_log, wipe_requests,
                   fetch_requests, rowVars, ingestVars, fetchVars>>

\* Lines 132-149: one iteration of the second loop, over the set all_jobs.
VisitJob ==
    /\ cpc = "jobs"
    /\ \E job_name \in todo_jobs :
         /\ todo_jobs' = todo_jobs \ {job_name}
         /\ IF JobDeleteDue(job_instances, job_name)
            THEN \E outcome \in DeleteOutcomes :
                   LET target == <<job_name, "">>
                   IN  /\ del_count' = Bump(del_count, target)
                       /\ del_log' = Put(del_log, target,
                                      [status |-> outcome, log |-> DeleteLog(outcome)])
                       /\ groups' = GroupsAfterDelete(groups, target, outcome)
                       /\ cpc' = IF AfterDelete(outcome) = "continue" THEN cpc
                                 ELSE "finished"
            ELSE UNCHANGED <<del_count, del_log, groups, cpc>>
    /\ UNCHANGED <<exposition, wipe_status, admin_wipe_successful, discover_calls,
                   fetched, job_instances, all_jobs, todo_instances, wipe_requests,
                   fetch_requests, rowVars, ingestVars, fetchVars>>

\* Lines 151-152 and 166: the function returns, the run is finished.
JobsDone ==
    /\ cpc = "jobs"
    /\ todo_jobs = {}
    /\ cpc' = "finished"
    /\ UNCHANGED <<exposition, groups, wipe_status, admin_wipe_successful,
                   discover_calls, fetched, job_instances, all_jobs, todo_instances,
                   todo_jobs, del_count, del_log, wipe_requests,
                   fetch_requests, rowVars, ingestVars, fetchVars>>

(***************************************************************************)
(* fetch_and_extract_histdata_csv (histdata_ingestor.py, lines 36-105).    *)
(* The site is the environment: it chooses how each request ends, the page *)
(* the GET returns and the response of the POST.                           *)
(***************************************************************************)
MaxEntries == 2

\* Line 66.
required_fields == <<"tk", "date", "datemonth", "platform", "timeframe", "fxpair">>

RequiredSet == {required_fields[k] : k \in 1..Len(required_fields)}

\* session.get / session.post followed by raise_for_status (lines 48-49, 76-77):
\* "ok", or the requests exception raised.
RequestOutcomes == {"ok", "HTTPError", "ConnectionError", "Timeout"}

\* The <input> tags a page can hold inside the form: the six required names and
\* one more. A tag is "missing", has a name but no value attribute ("novalue"),
\* or has a value.
InputNames == RequiredSet \cup {"submit"}

InputValues == {"x", "y"}

NoPage == [form |-> FALSE, inputs |-> [n \in InputNames |-> "missing"]]

Pages ==
    {NoPage} \cup
    { [form |-> TRUE, inputs |-> inp] :
        inp \in { f \in [InputNames -> {"missing", "novalue"} \cup InputValues] :
                    f["submit"] \in {"missing", "x"} } }

\* Lines 61-64: the dict of the tags that have both a name and a value.
form_inputs(pg) ==
    [n \in {m \in InputNames : pg.inputs[m] \in InputValues} |-> pg.inputs[n]]

\* Line 67: all(field in form_inputs for field in required_fields).
HasAllRequired(inputs) ==
    \A k \in 1..Len(required_fields) : required_fields[k] \in DOMAIN inputs

Payload_AllInputs(inputs) == inputs

\* Line 71: the POST body.
Payload(inputs) == [f \in RequiredSet |-> inputs[f]]

NextAfterGet_Retry(outcome, pg) ==
    IF outcome # "ok" THEN "start"
    ELSE IF ~pg.form THEN "returned"
    ELSE IF ~HasAllRequired(form_inputs(pg)) THEN "returned"
    ELSE "form"

\* Lines 48-69: where the function stands after the GET: it has returned None
\* (exception caught at 97-98, no form at 53-55, a field missing at 67-69), or
\* it holds a complete form.
NextAfterGet(outcome, pg) ==
    IF outcome # "ok" THEN "returned"
    ELSE IF ~pg.form THEN "returned"
    ELSE IF ~HasAllRequired(form_inputs(pg)) THEN "returned"
    ELSE "form"

\* The Content-Type headers of the model, and what .lower() makes of them
\* (line 79; a response without the header gives '').
ContentTypes ==
    {"application/zip", "Application/ZIP", "application/octet-stream",
     "application/x-zip-compressed; charset=binary", "text/html", "application/json", ""}

Lower(s) == IF s = "Application/ZIP" THEN "application/zip" ELSE s

ZipTypes == {"application/zip", "application/octet-stream", "application/x-zip-compressed"}

\* zip_type in content_type: the substring test, over the model's headers.
Contains(content_type, zip_type) ==
    content_type \in {zip_type, zip_type \o "; charset=binary"}

IsArchiveType_Any(header) == TRUE

\* Lines 79-81.
IsArchiveType(header) == \E zip_type \in ZipTypes : Contains(Lower(header), zip_type)

\* The entry names an archive of the model can hold.
EntryNames == {"DAT_MT_EURUSD_M1_202301.csv", "DAT_MT_EURUSD_M1_202301.txt", "DATA.CSV"}

\* member.lower().endswith('.csv'), over the model's entry names.
IsCsvName(member) == member \in {"DAT_MT_EURUSD_M1_202301.csv", "DATA.CSV"}

\* Line 89: next(member for member in zf.namelist() if ..., None).
RECURSIVE FirstCsv(_)
FirstCsv(names) ==
    IF names = <<>> THEN None
    ELSE IF IsCsvName(names[1]) THEN names[1]
    ELSE FirstCsv(Tail(names))

RECURSIVE NamesUpTo(_)
NamesUpTo(n) ==
    IF n = 0 THEN {<<>>}
    ELSE NamesUpTo(n - 1) \cup
         {Append(s, e) : s \in {t \in NamesUpTo(n - 1) : Len(t) = n - 1}, e \in EntryNames}

NoDownload == [content_type |-> "", valid |-> FALSE, names |-> <<>>, utf8 |-> FALSE]

\* The responses of the POST: a Content-Type header and a body that is a valid
\* archive or not (BadZipFile); a valid archive has entries, and the bytes of
\* its first .csv entry decode as UTF-8 or not.
Downloads ==
    { [content_type |-> ct, valid |-> FALSE, names |-> <<>>, utf8 |-> FALSE] :
        ct \in ContentTypes } \cup
    { [content_type |-> ct, valid |-> TRUE, names |-> ns, utf8 |-> u] :
        ct \in ContentTypes, ns \in NamesUpTo(MaxEntries), u \in BOOLEAN }

TextOf(member) == "text of " \o member

\* Lines 79-95, with the handlers of 101-104: the value returned and the
\* entries read from the archive.
Extract(resp) ==
    IF ~IsArchiveType(resp.content_type) THEN [result |-> None, read |-> <<>>]
    ELSE IF ~resp.valid THEN [result |-> None, read |-> <<>>]
    ELSE LET csv_file_name == FirstCsv(resp.names)
         IN  IF csv_file_name = None THEN [result |-> None, read |-> <<>>]
             ELSE IF ~resp.utf8 THEN [result |-> None, read |-> <<csv_file_name>>]
             ELSE [result |-> TextOf(csv_file_name), read |-> <<csv_file_name>>]

NoPayload == [f \in {} |-> ""]

FetchIdle ==
    /\ fpc = "idle" /\ gets = 0 /\ posts = 0 /\ get_outcome = "none"
    /\ page = NoPage /\ payload = NoPayload /\ post_outcome = "none"
    /\ download = NoDownload /\ extracted = <<>> /\ fetch_result = None

\* Lines 48-69: the GET, the search for the form and for its fields.
GetFormPage ==
    /\ fpc = "start"
    /\ \E outcome \in RequestOutcomes, pg \in Pages :
         /\ outcome # "ok" => pg = NoPage
         /\ gets' = gets + 1
         /\ get_outcome' = outcome
         /\ page' = pg
         /\ fpc' = NextAfterGet(outcome, pg)
    /\ UNCHANGED <<posts, payload, post_outcome, download, extracted, fetch_result,
                   rowVars, ingestVars, cleanVars>>

\* Lines 71-105: the POST of the form's fields and the extraction of the CSV.
PostAndExtract ==
    /\ fpc = "form"
    /\ \E outcome \in RequestOutcomes, resp \in Downloads :
         /\ outcome # "ok" => resp = NoDownload
         /\ posts' = posts + 1
         /\ payload' = Payload(form_inputs(page))
         /\ post_outcome' = outcome
         /\ download' = resp
         /\ IF outcome # "ok"
            THEN extracted' = <<>> /\ fetch_result' = None
            ELSE /\ extracted' = Extract(resp).read
                 /\ fetch_result' = Extract(resp).result
         /\ fpc' = "returned"
    /\ UNCHANGED <<gets, get_outcome, page, rowVars, ingestVars, cleanVars>>

(***************************************************************************)
(* The specifications.                                                     *)
(***************************************************************************)
InitRow ==
    /\ row \in RowSpace
    /\ row_pc = "start"
    /\ row_result = RowOutcome(<<>>)
    /\ IngestIdle
    /\ CleanIdle
    /\ FetchIdle

NextRow == ParseRow

SpecRow == InitRow /\ [][NextRow]_vars

Init ==
    /\ all_rows \in CsvSpace
    /\ PUSH_SUB_BATCH_SIZE \in 1..MaxChunk
    /\ pc = "start"
    /\ run = 1
    /\ i = 0
    /\ candles_processed_total = 0
    /\ candles_in_current_sub_batch = 0
    /\ registry = 0
    /\ gauges = {}
    /\ chunk_rows = {}
    /\ pushes = <<>>
    /\ pushed_registries = {}
    /\ gateway = NoGroups
    /\ RowIdle
    /\ CleanIdle
    /\ FetchIdle

Next == NoContent \/ Begin \/ Iterate \/ Finish \/ Rerun

Spec == Init /\ [][Next]_vars

InitClean ==
    /\ exposition \in ExpositionsUpTo(MaxCleanLines)
    /\ groups = GroupsOf(exposition)
    /\ cpc = "wipe"
    /\ wipe_status = None
    /\ admin_wipe_successful = FALSE
    /\ discover_calls = 0
    /\ fetched = "no"
    /\ job_instances = <<>>
    /\ all_jobs = {}
    /\ todo_instances = <<>>
    /\ todo_jobs = {}
    /\ del_count = NoCounts
    /\ del_log = NoCounts
    /\ wipe_requests = 0
    /\ fetch_requests = 0
    /\ RowIdle
    /\ IngestIdle
    /\ FetchIdle

NextClean ==
    AdminWipe \/ Fetch \/ DeleteInstance \/ InstancesDone \/ VisitJob \/ JobsDone

SpecClean == InitClean /\ [][NextClean]_vars

\* The cleanup run under the scheduling of a sequential script: every request
\* carries a timeout (lines 22, 56, 119, 139), so the step the run stands at is
\* eventually taken.
SpecCleanFair == SpecClean /\ WF_vars(NextClean)

\* discover_and_delete_groups alone, called once after a wipe that did not succeed.
InitDiscover ==
    /\ exposition \in ExpositionsUpTo(MaxLines)
    /\ groups = GroupsOf(exposition)
    /\ cpc = "fetch"
    /\ wipe_status = None
    /\ admin_wipe_successful = FALSE
    /\ discover_calls = 1
    /\ fetched = "no"
    /\ job_instances = <<>>
    /\ all_jobs = {}
    /\ todo_instances = <<>>
    /\ todo_jobs = {}
    /\ del_count = NoCounts
    /\ del_log = NoCounts
    /\ wipe_requests = 1
    /\ fetch_requests = 0
    /\ RowIdle
    /\ IngestIdle
    /\ FetchIdle

NextDiscover == Fetch \/ DeleteInstance \/ InstancesDone \/ VisitJob \/ JobsDone

SpecDiscover == InitDiscover /\ [][NextDiscover]_vars

\* One call of fetch_and_extract_histdata_csv.
InitFetch ==
    /\ fpc = "start"
    /\ gets = 0
    /\ posts = 0
    /\ get_outcome = "none"
    /\ page = NoPage
    /\ payload = NoPayload
    /\ post_outcome = "none"
    /\ download = NoDownload
    /\ extracted = <<>>
    /\ fetch_result = None
    /\ RowIdle
    /\ IngestIdle
    /\ CleanIdle

NextFetch == GetFormPage \/ PostAndExtract

SpecFetch == InitFetch /\ [][NextFetch]_vars

(***************************************************************************)
(* __main__ of histdata_ingestor.py (lines 245-257): the download, then    *)
(* the publisher if the download returned text.                            *)
(***************************************************************************)
\* A mutant: the publisher is called whatever the download returned.
MainNext_Always(csv_data_online) == "call"

\* Lines 253-257: if csv_data_online.
MainNext(csv_data_online) == IF csv_data_online # None THEN "call" ELSE "failed"

\* Lines 251-257: fetch_and_extract_histdata_csv has returned; of its locals
\* only the value returned lives on, as csv_data_online.
MainBranch ==
    /\ fpc = "returned"
    /\ pc = "idle"
    /\ fpc' = "handed"
    /\ pc' = MainNext(fetch_result)
    /\ page' = NoPage
    /\ payload' = NoPayload
    /\ download' = NoDownload
    /\ extracted' = <<>>
    /\ UNCHANGED <<gets, posts, get_outcome, post_outcome, fetch_result, all_rows,
                   PUSH_SUB_BATCH_SIZE, run, i, candles_processed_total,
                   candles_in_current_sub_batch, registry, gauges, chunk_rows, pushes,
                   pushed_registries, gateway, rowVars, cleanVars>>

\* Lines 255 and 150-157: parse_histdata_csv_and_push is entered with the text;
\* the rows csv.reader finds in it are the site's choice. No text, no rows.
CallParse ==
    /\ pc = "call"
    /\ pc' = "start"
    /\ IF fetch_result = None
       THEN all_rows' = <<>>
       ELSE \E rows \in CsvSpace \ {<<>>} : all_rows' = rows
    /\ UNCHANGED <<PUSH_SUB_BATCH_SIZE, run, i, candles_processed_total,
                   candles_in_current_sub_batch, registry, gauges, chunk_rows, pushes,
                   pushed_registries, gateway, rowVars, cleanVars, fetchVars>>

\* The script run once against an empty Pushgateway, or
\* parse_histdata_csv_and_push called on its own with no content.
InitMain ==
    /\ all_rows = <<>>
    /\ PUSH_SUB_BATCH_SIZE \in 1..MaxChunk
    /\ run = 1
    /\ i = 0
    /\ candles_processed_total = 0
    /\ candles_in_current_sub_batch = 0
    /\ registry = 0
    /\ gauges = {}
    /\ chunk_rows = {}
    /\ pushes = <<>>
    /\ pushed_registries = {}
    /\ gateway = NoGroups
    /\ gets = 0
    /\ posts = 0
    /\ get_outcome = "none"
    /\ page = NoPage
    /\ payload = NoPayload
    /\ post_outcome = "none"
    /\ download = NoDownload
    /\ extracted = <<>>
    /\ fetch_result = None
    /\ \/ fpc = "start" /\ pc = "idle"
       \/ fpc = "idle" /\ pc = "start"
    /\ RowIdle
    /\ CleanIdle

NextMain ==
    GetFormPage \/ PostAndExtract \/ MainBranch \/ CallParse \/ NoContent \/ Begin
        \/ Iterate \/ Finish

SpecMain == InitMain /\ [][NextMain]_vars

(***************************************************************************)
(* Helpers of the properties.                                              *)
(***************************************************************************)
ValidRowNumbers(rows) == {k \in 1..Len(rows) : RowOutcome(rows[k]).kind = "bar"}

RECURSIVE SumCounts(_)
SumCounts(ps) == IF ps = <<>> THEN 0 ELSE ps[1].count + SumCounts(Tail(ps))

CeilDiv(n, c) == (n + c - 1) \div c

PushKey == GroupKey(target_currency_pair, target_year, target_month)

GroupContent(key) == IF key \in DOMAIN gateway THEN gateway[key] ELSE {}

\* The series a fresh container set holds after receiving the bars of the rows
\* numbered in `chosen`, among the first n rows, in input order.
RECURSIVE ChunkSeries(_, _, _)
ChunkSeries(rows, chosen, n) ==
    IF n = 0 THEN {}
    ELSE IF n \in chosen
         THEN GaugesAfterRow(ChunkSeries(rows, chosen, n - 1), rows[n])
         ELSE ChunkSeries(rows, chosen, n - 1)

\* The k-th valid row number, counting from 1.
NthValid(rows, k) ==
    CHOOSE n \in ValidRowNumbers(rows) :
        Cardinality({m \in ValidRowNumbers(rows) : m <= n}) = k

\* With the valid bars cut into chunks of c in input order: the rows of chunk q.
ChunkOf(rows, c, q) ==
    {NthValid(rows, k) :
        k \in {h \in 1..Cardinality(ValidRowNumbers(rows)) : (h - 1) \div c + 1 = q}}

\* The pushes the loop makes over the first n rows when no outcome matters: the
\* row numbers of each, in order, and the open chunk.
RECURSIVE Scan(_, _, _)
Scan(rows, c, n) ==
    IF n = 0 THEN [chunks |-> <<>>, cur |-> {}, processed |-> 0]
    ELSE LET s == Scan(rows, c, n - 1)
         IN  IF n \notin ValidRowNumbers(rows) THEN s
             ELSE IF Cardinality(s.cur) + 1 >= c \/ s.processed + 1 = Len(rows)
             THEN [chunks |-> Append(s.chunks, s.cur \cup {n}), cur |-> {},
                   processed |-> s.processed + 1]
             ELSE [chunks |-> s.chunks, cur |-> s.cur \cup {n},
                   processed |-> s.processed + 1]

(***************************************************************************)
(* C1: when parse_histdata_csv_and_push returns, the bar counts of the     *)
(* push calls sum to the number of valid rows, and every valid row's bar   *)
(* went into exactly one push call. The code pushes the last, partial      *)
(* chunk only when candles_processed_total equals the number of rows, so   *)
(* one skipped row leaves it unpushed: this statement is violated.         *)
(***************************************************************************)
C1_EveryBarPushedOnce ==
    pc = "done" =>
        /\ SumCounts(pushes) = Cardinality(ValidRowNumbers(all_rows))
        /\ \A n \in ValidRowNumbers(all_rows) :
              Cardinality({k \in DOMAIN pushes : n \in pushes[k].rows}) = 1

(***************************************************************************)
(* C2: with N valid rows and chunk size C the run issues exactly           *)
(* ceil(N / C) push calls, wherever the skipped rows are. Violated for the *)
(* same reason as C1.                                                      *)
(***************************************************************************)
C2_CeilPushCalls ==
    pc = "done" =>
        Len(pushes) = CeilDiv(Cardinality(ValidRowNumbers(all_rows)), PUSH_SUB_BATCH_SIZE)

(***************************************************************************)
(* C3: after the ingestion has run twice to completion, with every push of *)
(* the second run accepted, the group holds exactly the second run's final *)
(* chunk, and no series that was only in the first chunk. Violated: with a *)
(* skipped row the final chunk is never pushed (C1), so the group holds an *)
(* earlier chunk or nothing.                                               *)
(***************************************************************************)
C3_GroupHoldsFinalChunkOfSecondRun ==
    LET N == Cardinality(ValidRowNumbers(all_rows))
        last == CeilDiv(N, PUSH_SUB_BATCH_SIZE)
        final == ChunkSeries(all_rows, ChunkOf(all_rows, PUSH_SUB_BATCH_SIZE, last),
                             Len(all_rows))
        first == ChunkSeries(all_rows, ChunkOf(all_rows, PUSH_SUB_BATCH_SIZE, 1),
                             Len(all_rows))
    IN  (/\ run = 2
         /\ pc = "done"
         /\ N > 0
         /\ \A k \in DOMAIN pushes : pushes[k].ok)
        => /\ GroupContent(PushKey) = final
           /\ (first \ final) \cap GroupContent(PushKey) = {}

(***************************************************************************)
(* C4: a container set handed to a push call never receives another bar:   *)
(* no two push calls share a registry or a row, and while a pushed         *)
(* registry is still the current one it holds exactly what was pushed.     *)
(***************************************************************************)
C4_PushedContainersNotReused ==
    /\ \A a, b \in DOMAIN pushes :
          a < b => /\ pushes[a].registry # pushes[b].registry
                   /\ pushes[a].rows \cap pushes[b].rows = {}
    /\ \A a \in DOMAIN pushes :
          pushes[a].registry = registry =>
              /\ chunk_rows = pushes[a].rows
              /\ gauges = pushes[a].series
    /\ \A a \in DOMAIN pushes : pushes[a].registry \in pushed_registries

\* Two pushes were made, the second on the last row, whose registry is kept.
C4_Witness ==
    /\ pc = "done"
    /\ Len(pushes) >= 2
    /\ registry \in pushed_registries
    /\ chunk_rows # {}

(***************************************************************************)
(* C5: a failed push does not abort publication: in every state the push   *)
(* calls made so far, and the rows each carried, are those the rows        *)
(* consumed so far determine, whatever the outcome of each push, and the   *)
(* run ends only with every row consumed.                                  *)
(***************************************************************************)
C5_PushesIndependentOfOutcome ==
    /\ [k \in DOMAIN pushes |-> pushes[k].rows]
         = Scan(all_rows, PUSH_SUB_BATCH_SIZE, i).chunks
    /\ chunk_rows \in {Scan(all_rows, PUSH_SUB_BATCH_SIZE, i).cur} \cup
                      {pushes[k].rows : k \in DOMAIN pushes}
    /\ pc = "done" => i = Len(all_rows)

\* A push failed and a later chunk was pushed all the same.
C5_Witness ==
    /\ pc = "done"
    /\ \E a, b \in DOMAIN pushes : a < b /\ ~pushes[a].ok /\ pushes[b].ok

(***************************************************************************)
(* C6: a row that fails timestamp recovery, the column count or a numeric  *)
(* conversion is skipped whole: the step that consumes it changes neither  *)
(* the containers, nor the counters, nor the pushes, and goes on to the    *)
(* next row; no container ever holds a bar with only some of its four      *)
(* series; the run ends only with every row consumed.                      *)
(***************************************************************************)
WholeBars(series) ==
    \A s \in series : \A m \in Metrics :
        \E t \in series : t.metric = m /\ t.timestamp = s.timestamp

SkippedRowStep ==
    (/\ pc = "loop"
     /\ i < Len(all_rows)
     /\ RowOutcome(all_rows[i + 1]).kind # "bar")
    => /\ i' = i + 1
       /\ pc' = "loop"
       /\ gauges' = gauges
       /\ chunk_rows' = chunk_rows
       /\ candles_in_current_sub_batch' = candles_in_current_sub_batch
       /\ candles_processed_total' = candles_processed_total
       /\ pushes' = pushes
       /\ gateway' = gateway

C6_SkippedRowLeavesNoTrace ==
    /\ [](WholeBars(gauges) /\ \A k \in DOMAIN pushes : WholeBars(pushes[k].series))
    /\ [](pc = "done" => i = Len(all_rows))
    /\ [][SkippedRowStep]_vars

\* A row with a bad price and a row short of columns were skipped, and the row
\* after them gave a bar.
C6_Witness ==
    /\ i = 3
    /\ RowOutcome(all_rows[1]).kind = "ValueError"
    /\ RowOutcome(all_rows[2]).kind = "malformed"
    /\ chunk_rows = {3}
    /\ candles_processed_total = 1

(***************************************************************************)
(* C7: for every row that yields a bar, open is read from column 1 when    *)
(* column 0 alone gave the timestamp and from column 2 when only the       *)
(* joined columns 0 and 1 did. Violated: a 14-digit timestamp in column 0  *)
(* has no blank, dot or colon, so lines 188-190 choose column 2, and with  *)
(* seven columns the bar is built one column off.                          *)
(***************************************************************************)
C7_OffsetAgreesWithTimestamp ==
    (row_pc = "done" /\ row_result.kind = "bar")
    => row_result.idx = (IF row_result.from = "col0" THEN 1 ELSE 2)

(***************************************************************************)
(* C8: discover_and_delete_groups is never invoked when the wipe returns   *)
(* 200, and exactly once, after the wipe attempt, for every other outcome. *)
(***************************************************************************)
C8_DiscoverIffWipeFailed ==
    /\ cpc = "wipe" => (wipe_status = None /\ discover_calls = 0)
    /\ wipe_status = "200" => (discover_calls = 0 /\ fetched = "no" /\ cpc = "finished")
    /\ wipe_status \in WipeOutcomes \ {"200"} => discover_calls = 1
    /\ cpc \in {"fetch", "instances", "jobs"} => wipe_status \in WipeOutcomes \ {"200"}
    /\ discover_calls = 0 => fetched = "no"

\* The wipe was refused with 405 and the fallback ran to its end.
C8_Witness ==
    /\ cpc = "finished"
    /\ wipe_status = "405"
    /\ discover_calls = 1
    /\ fetched = "ok"

(***************************************************************************)
(* C9: for every exposition text the fallback issues exactly one group     *)
(* delete per distinct (job, instance) pair seen on a data line, exactly   *)
(* one job-level delete per job seen only without an instance, none for a  *)
(* job with an instance-qualified line, and none for comment lines, blank  *)
(* lines and data lines without a job label. As in the Prometheus data     *)
(* model, a label with the empty value counts as not present.              *)
(***************************************************************************)
SeenPairs ==
    {<<LabelValue(exposition[k].labels, "job"), LabelValue(exposition[k].labels, "instance")>> :
        k \in {h \in 1..Len(exposition) :
                 /\ exposition[h].kind = "data"
                 /\ Truthy(LabelValue(exposition[h].labels, "job"))
                 /\ Truthy(LabelValue(exposition[h].labels, "instance"))}}

SeenJobs ==
    {LabelValue(exposition[k].labels, "job") :
        k \in {h \in 1..Len(exposition) :
                 /\ exposition[h].kind = "data"
                 /\ Truthy(LabelValue(exposition[h].labels, "job"))}}

JobsWithoutInstance == {j \in SeenJobs : \A p \in SeenPairs : p[1] # j}

ExpectedDeletes == SeenPairs \cup {<<j, "">> : j \in JobsWithoutInstance}

C9_OneDeletePerGroup ==
    /\ \A t \in DOMAIN del_count : del_count[t] = 1 /\ t \in ExpectedDeletes
    /\ (cpc = "finished" /\ fetched = "ok") => DOMAIN del_count = ExpectedDeletes

\* The example of the spec: two instances of j1 and j2 alone give two group
\* deletes, one job-level delete for j2 and none for j1.
C9_Witness ==
    /\ cpc = "finished"
    /\ DOMAIN del_count = {<<"j1", "i1">>, <<"j1", "i2">>, <<"j2", "">>}
    /\ \E k \in 1..Len(exposition) : exposition[k].labels = << <<"job", "j2">> >>

(***************************************************************************)
(* C10: a failed delete does not abort reconciliation: in every state of   *)
(* the two loops the deletes issued and the deletes still to come are      *)
(* together the deletes the text calls for, whatever the outcomes so far,  *)
(* and the function returns only when none is left; a 404 is logged as     *)
(* already absent, every outcome other than 202 and 404 as an error.       *)
(***************************************************************************)
PendingDeletes ==
    UNION {{<<todo_instances[k][1], inst>> : inst \in todo_instances[k][2]} :
             k \in 1..Len(todo_instances)}
    \cup {<<j, "">> : j \in {h \in todo_jobs : DictGet(job_instances, h) = {}}}

Errors == {"error: status", "error: exception"}

C10_FailedDeleteDoesNotAbort ==
    /\ (fetched = "ok" /\ cpc \in {"instances", "jobs", "finished"})
         => DOMAIN del_count \cup PendingDeletes = ExpectedDeletes
    /\ cpc = "finished" => PendingDeletes = {}
    /\ \A t \in DOMAIN del_log :
          /\ del_log[t].status = "404" => del_log[t].log = "already absent"
          /\ del_log[t].status = "202" => del_log[t].log = "deleted"
          /\ del_log[t].status \notin {"202", "404"} <=> del_log[t].log \in Errors

\* Every one of three deletes failed, one of them by an exception, and all three
\* were issued.
C10_Witness ==
    /\ cpc = "finished"
    /\ Cardinality(DOMAIN del_count) = 3
    /\ \A t \in DOMAIN del_log : del_log[t].log \in Errors
    /\ \E t \in DOMAIN del_log : del_log[t].status = "Exception"
    /\ \E t \in DOMAIN del_log : del_log[t].status = "500"

(***************************************************************************)
(* The download (SpecFetch).                                               *)
(***************************************************************************)
CompleteForm == page.form /\ \A f \in RequiredSet : page.inputs[f] \in InputValues

ArchiveHeaders ==
    {"application/zip", "Application/ZIP", "application/octet-stream",
     "application/x-zip-compressed; charset=binary"}

CsvEntries == {k \in 1..Len(download.names) : IsCsvName(download.names[k])}

FirstCsvEntry == download.names[CHOOSE k \in CsvEntries : \A j \in CsvEntries : k <= j]

\* C11: the POST is issued only after the GET succeeded, the form was found and
\* all six required fields were present in it; when the form or a field is
\* absent the call fails without a POST; the body of the POST holds exactly the
\* six required fields, each with the value the form gave it, and no other.
C11_PostOnlyWithCompleteForm ==
    /\ [][posts' # posts =>
            /\ gets = 1 /\ get_outcome = "ok" /\ CompleteForm
            /\ DOMAIN payload' = RequiredSet
            /\ \A f \in RequiredSet : payload'[f] = page.inputs[f]]_vars
    /\ []((fpc = "returned" /\ ~CompleteForm) => (posts = 0 /\ fetch_result = None))

C11_Witness ==
    /\ posts = 1 /\ page.inputs["submit"] = "x"
    /\ page.inputs["tk"] = "x" /\ page.inputs["fxpair"] = "y"

\* C12: one call issues at most one GET and at most one POST; a network error,
\* a timeout or an HTTP error status on either request ends the call with the
\* failure value, and the request is not made again.
C12_AtMostOneGetAndPost ==
    /\ gets <= 1 /\ posts <= 1
    /\ get_outcome \notin {"none", "ok"} =>
          fpc = "returned" /\ fetch_result = None /\ posts = 0
    /\ post_outcome \notin {"none", "ok"} =>
          fpc = "returned" /\ fetch_result = None /\ extracted = <<>>

C12_Witness == gets = 1 /\ posts = 1 /\ post_outcome = "Timeout" /\ fpc = "returned"

\* C13: the call returns text only when every step succeeded: the GET, the form
\* and its fields, the POST, a Content-Type of an archive type, a valid archive
\* with an entry whose name ends in .csv, and the UTF-8 decoding of that entry;
\* in every other case it returns the failure value, and no entry other than
\* the first .csv entry is ever read.
C13_NoPartialSuccess ==
    LET every_step ==
            /\ get_outcome = "ok" /\ CompleteForm /\ post_outcome = "ok"
            /\ download.content_type \in ArchiveHeaders
            /\ download.valid /\ CsvEntries # {} /\ download.utf8
    IN  /\ fetch_result # None =>
              every_step /\ fetch_result = TextOf(FirstCsvEntry)
                         /\ extracted = <<FirstCsvEntry>>
        /\ (fpc = "returned" /\ ~every_step) => fetch_result = None
        /\ \A k \in 1..Len(extracted) :
              /\ k = 1 /\ CsvEntries # {} /\ extracted[k] = FirstCsvEntry
              /\ download.content_type \in ArchiveHeaders /\ download.valid

C13_Witness ==
    /\ fpc = "returned" /\ post_outcome = "ok" /\ download.content_type = "text/html"
    /\ download.valid /\ CsvEntries # {} /\ download.utf8
    /\ fetch_result = None /\ extracted = <<>>

(***************************************************************************)
(* The publisher's group key and chunks (Spec).                            *)
(***************************************************************************)
\* C14: the group a chunk is pushed under depends on the instrument, the year
\* and the month of the request alone: every push of a run, whatever its
\* chunk, goes to the fixed job name and the instance made of the request's
\* instrument, year and month, and a second run for the same request pushes
\* under the same group, so the Pushgateway never holds any other group.
C14_GroupKeyOfRequestOnly ==
    /\ \A k \in 1..Len(pushes) :
          pushes[k].job = "histdata_fx_ingestor" /\ pushes[k].instance = "EURUSD_2023_01"
    /\ DOMAIN gateway \subseteq {<<"histdata_fx_ingestor", "EURUSD_2023_01">>}

\* The second run has pushed two chunks, into the group the first run filled.
C14_Witness ==
    /\ run = 2 /\ Len(pushes) >= 2 /\ pushes[2].ok
    /\ pushes[1].registry # pushes[2].registry
    /\ DOMAIN gateway # {}

RECURSIVE SumOkCounts(_)
SumOkCounts(ps) ==
    IF ps = <<>> THEN 0
    ELSE (IF ps[1].ok THEN ps[1].count ELSE 0) + SumOkCounts(Tail(ps))

\* C15: at the end of the publication the count the publisher reports as
\* processed holds only the bars of the chunks whose push succeeded: when every
\* bar counted went out in some push call, the reported count is the sum of the
\* bar counts of the accepted pushes, the bars of a failed push being left out.
C15_TallyCountsOnlyPushedBars ==
    (pc = "done" /\ SumCounts(pushes) = candles_processed_total)
        => candles_processed_total = SumOkCounts(pushes)

\* C16: every push call carries at least one bar and at most
\* PUSH_SUB_BATCH_SIZE bars, as many as the rows its chunk received, and the
\* per-chunk counter never exceeds PUSH_SUB_BATCH_SIZE.
C16_ChunkSizeBounded ==
    /\ candles_in_current_sub_batch <= PUSH_SUB_BATCH_SIZE
    /\ \A k \in 1..Len(pushes) :
          /\ 1 <= pushes[k].count /\ pushes[k].count <= PUSH_SUB_BATCH_SIZE
          /\ pushes[k].count = Cardinality(pushes[k].rows)

\* A full chunk and then a partial one were pushed.
C16_Witness ==
    /\ PUSH_SUB_BATCH_SIZE = 2 /\ Len(pushes) = 2
    /\ pushes[1].count = 2 /\ pushes[2].count = 1

\* The timestamps of the rows a push carries.
TimestampsOf(p) == {RowOutcome(all_rows[n]).dt : n \in p.rows}

\* C20 as stated: every push carries four distinct series per bar counted,
\* also when two rows of the chunk have the same timestamp.
C20_FourSeriesPerBar ==
    \A k \in 1..Len(pushes) : Cardinality(pushes[k].series) = 4 * pushes[k].count

\* C20, amended: every push carries exactly four series (open, high, low,
\* close) per distinct timestamp among the bars counted in its chunk, which
\* is four per bar when the timestamps of the chunk's rows are all different;
\* a row with the timestamp of an earlier row of the chunk replaces that row's
\* four samples and adds no series.
C20_FourSeriesPerTimestamp ==
    \A k \in 1..Len(pushes) :
        LET p == pushes[k]
        IN  /\ Cardinality(p.series) = 4 * Cardinality(TimestampsOf(p))
            /\ \A t \in TimestampsOf(p), m \in Metrics :
                  Cardinality({x \in p.series : x.metric = m /\ x.timestamp = t}) = 1
            /\ Cardinality(TimestampsOf(p)) = p.count
                  => Cardinality(p.series) = 4 * p.count

\* A chunk of two bars with one timestamp was pushed: four series.
C20_Witness ==
    \E k \in 1..Len(pushes) :
        /\ pushes[k].count = 2 /\ Cardinality(TimestampsOf(pushes[k])) = 1
        /\ Cardinality(pushes[k].series) = 4

(***************************************************************************)
(* The timestamp of a row (SpecRow).                                       *)
(***************************************************************************)
Matching(s) ==
    {k \in 1..3 : Strptime(s, <<"%Y%m%d %H%M%S", "%Y.%m.%d %H:%M", "%Y%m%d%H%M%S">>[k]) # None}

Earliest(ks) == CHOOSE k \in ks : \A h \in ks : k <= h

FormatAt(k) == <<"%Y%m%d %H%M%S", "%Y.%m.%d %H:%M", "%Y%m%d%H%M%S">>[k]

\* C17: the timestamp of a row is what the first of the three patterns, in
\* their fixed order, that matches column 0 alone gives; only when none
\* matches column 0 and the row has a second column is it what the first
\* pattern that matches columns 0 and 1 joined by a space gives; when nothing
\* matches there is no timestamp and the caller skips the row.
C17_Col0ThenJoinedInOrder ==
    (row_pc = "done" /\ Len(row) >= 1) =>
        LET alone == Strip(row[1])
            both == IF Len(row) >= 2 THEN Strip(row[1]) \o " " \o Strip(row[2]) ELSE ""
        IN  IF Matching(alone) # {}
            THEN /\ row_result.from = "col0"
                 /\ row_result.fmt = Earliest(Matching(alone))
                 /\ row_result.dt = Strptime(alone, FormatAt(Earliest(Matching(alone))))
            ELSE IF Len(row) >= 2 /\ Matching(both) # {}
            THEN /\ row_result.from = "joined"
                 /\ row_result.fmt = Earliest(Matching(both))
                 /\ row_result.dt = Strptime(both, FormatAt(Earliest(Matching(both))))
            ELSE /\ row_result.kind = "unparsed_datetime"
                 /\ row_result.dt = None /\ row_result.bar = NoBar

\* Column 0 matches the first and the third pattern: the first one is taken.
C17_Witness ==
    /\ row_pc = "done" /\ Len(row) >= 2 /\ row[1] = "202311 51234"
    /\ row_result.fmt = 1 /\ row_result.dt = "20230101051234"

(***************************************************************************)
(* The cleanup run ends (SpecCleanFair).                                   *)
(***************************************************************************)
\* C18: whatever the Pushgateway answers, the cleanup run issues at most one
\* wipe request, at most one fetch of the exposition, at most one delete per
\* (job, instance) pair found in it and at most one per job found in it, and
\* it eventually reaches the finished state.
C18_CleanupTerminates ==
    /\ [](/\ wipe_requests <= 1
          /\ fetch_requests <= 1
          /\ \A t \in DOMAIN del_count :
                /\ del_count[t] <= 1
                /\ t \in SeenPairs \cup {<<j, "">> : j \in SeenJobs})
    /\ <>(cpc = "finished")

\* The wipe timed out, the fetch was made and both deletes failed: finished.
C18_Witness ==
    /\ cpc = "finished" /\ wipe_status = "Timeout" /\ fetch_requests = 1
    /\ Cardinality(DOMAIN del_count) = 2
    /\ \A t \in DOMAIN del_log : del_log[t].status \in {"500", "Exception"}

(***************************************************************************)
(* What discover_and_delete_groups leaves behind (SpecDiscover).           *)
(***************************************************************************)
\* C19: when the wipe was unavailable and every delete issued was accepted
\* (202), none of the groups of the fetched exposition remains once the run
\* is finished, the group of a job alone included when the same job also has
\* groups with an instance.
C19_AcceptedDeletesLeaveNoGroup ==
    (/\ cpc = "finished" /\ fetched = "ok"
     /\ \A t \in DOMAIN del_log : del_log[t].status = "202")
        => groups \cap GroupsOf(exposition) = {}

(***************************************************************************)
(* The ingestion script (SpecMain).                                        *)
(***************************************************************************)
\* C21: no push is issued for a download that failed: when
\* fetch_and_extract_histdata_csv returned no text the publisher is not
\* entered and nothing reaches the Pushgateway; every push of the script
\* comes after the download returned text; and parse_histdata_csv_and_push,
\* given no content, ends without a push.
C21_NoPushForFailedDownload ==
    /\ []((fpc # "idle" /\ fetch_result = None) =>
             /\ pc \in {"idle", "failed"}
             /\ pushes = <<>> /\ gateway = NoGroups /\ all_rows = <<>>)
    /\ [][pushes' # pushes =>
             (fpc = "handed" /\ fetch_result # None /\ gets = 1 /\ posts = 1)]_vars
    /\ [](pc \in {"call", "start", "loop", "done"} /\ fpc # "idle" =>
             (fpc = "handed" /\ fetch_result # None))
    /\ [](fpc = "idle" => (all_rows = <<>> /\ pushes = <<>> /\ gateway = NoGroups))

\* The form was posted, the response held no CSV text, and the script ended
\* on its error branch without entering the publisher.
C21_Witness ==
    /\ fpc = "handed" /\ pc = "failed"
    /\ get_outcome = "ok" /\ post_outcome = "ok" /\ fetch_result = None
    /\ registry = 0 /\ pushes = <<>>
====
